---- MODULE Spec2Model ----
(***************************************************************************)
(* Model of dashboard.py: one render of main() -- the bank-feed step, the  *)
(* spreadsheet step, the revenue simulator, the merge and the metrics --   *)
(* and of the pure classifier clean_expense_category.                      *)
(*                                                                         *)
(* Python strings that the code inspects character by character are        *)
(* sequences of one-character strings; dates are day numbers; amounts are  *)
(* whole currency units.                                                   *)
(***************************************************************************)
EXTENDS Integers, Sequences, FiniteSets, TLC

\* ------------------------------------------------------------- bounds
\* Longest transactions_sync 'added' list drawn.
MaxTxn == 2
\* Most spreadsheet rows drawn.
MaxRows == 2
\* Iterations of the simulator loop (the code's range(30), scaled down).
RevCount == 2
\* Most tokens joined into a description handed to the classifier.
MaxTokens == 2
\* Day number of datetime.now().date() during the render.
Today == 40

\* ------------------------------------------------------------- program constants
\* random.randint(0,30): the largest day offset of a simulated sale.
DaysBack == 30

\* ------------------------------------------------------------- strings
UpperChars == <<"A","B","C","D","E","F","G","H","I","J","K","L","M",
                "N","O","P","Q","R","S","T","U","V","W","X","Y","Z">>
LowerChars == <<"a","b","c","d","e","f","g","h","i","j","k","l","m",
                "n","o","p","q","r","s","t","u","v","w","x","y","z">>

\* str.lower() on one character.
LowerChar(c) ==
    IF \E i \in 1..26 : UpperChars[i] = c
    THEN LowerChars[CHOOSE i \in 1..26 : UpperChars[i] = c]
    ELSE c

\* str.lower()
Lower(s) == [i \in 1..Len(s) |-> LowerChar(s[i])]

\* Python's  sub in s  for strings.
Contains(sub, s) ==
    \E i \in 0..(Len(s) - Len(sub)) : SubSeq(s, i + 1, i + Len(sub)) = sub

kw_uber      == <<"u","b","e","r">>
kw_united    == <<"u","n","i","t","e","d">>
kw_mcdonald  == <<"m","c","d","o","n","a","l","d">>
kw_starbucks == <<"s","t","a","r","b","u","c","k","s">>
kw_sparkfun  == <<"s","p","a","r","k","f","u","n">>
kw_apple     == <<"a","p","p","l","e">>

\* The classifier with its second and third rule swapped.
clean_expense_category_swapped(name) ==
    LET n == Lower(name) IN
    IF Contains(kw_uber, n) \/ Contains(kw_united, n) THEN "Travel"
    ELSE IF Contains(kw_sparkfun, n) \/ Contains(kw_apple, n) THEN "Equipment/Supplies"
    ELSE IF Contains(kw_mcdonald, n) \/ Contains(kw_starbucks, n) THEN "Meals"
    ELSE "Misc. Expense"

clean_expense_category(name) ==
    LET n == Lower(name) IN
    IF Contains(kw_uber, n) \/ Contains(kw_united, n) THEN "Travel"
    ELSE IF Contains(kw_mcdonald, n) \/ Contains(kw_starbucks, n) THEN "Meals"
    ELSE IF Contains(kw_sparkfun, n) \/ Contains(kw_apple, n) THEN "Equipment/Supplies"
    ELSE "Misc. Expense"

\* ------------------------------------------------------------- values
\* Python's None.
NoneVal == "None"

\* The characters of each description the render handles.
Chars(s) ==
    CASE s = "Uber"  -> <<"U","b","e","r">>
      [] s = "APPLE" -> <<"A","P","P","L","E">>
      [] s = "Cafe"  -> <<"C","a","f","e">>
      [] OTHER       -> <<>>

\* A raw date: a day number, or a value pd.to_datetime(...).date() raises on.
GoodDate(d) == [ok |-> TRUE, day |-> d]
BadDate == [ok |-> FALSE, day |-> 0]

\* A raw spreadsheet amount: a number, a numeric string, or any other string.
NumAmount(v) == [kind |-> "num", val |-> v]
StrAmount(v) == [kind |-> "str", val |-> v]
BadAmount == [kind |-> "bad", val |-> 0]

\* float(x): the number, or a ValueError.
FloatOf(raw) == [ok |-> raw.kind # "bad", val |-> raw.val]

\* The transactions a transactions_sync response is drawn from.
TxnSet ==
    { [date |-> GoodDate(Today - 1), name |-> "Uber",  amount |-> 20],
      [date |-> GoodDate(Today),     name |-> "APPLE", amount |-> -5],
      [date |-> BadDate,             name |-> "Cafe",  amount |-> 7] }

\* The rows a worksheet is drawn from.
Columns == {"Date", "Description", "Amount", "Category", "receipts"}
RowSet ==
    { [Date |-> GoodDate(Today - 1), Description |-> "Rent", Amount |-> NumAmount(100),
       Category |-> "Rent/Overhead", receipts |-> ""],
      [Date |-> BadDate, Description |-> "Tape", Amount |-> StrAmount(45),
       Category |-> "Equipment/Supplies", receipts |-> "http://r/1"],
      [Date |-> GoodDate(Today), Description |-> "Oops", Amount |-> BadAmount,
       Category |-> "Misc. Expense", receipts |-> ""] }
\* The header rows a worksheet is drawn from.
SchemaSet ==
    { Columns, Columns \ {"receipts"}, Columns \ {"Date"}, Columns \ {"Amount"} }

\* The sequences of distinct elements of S of length at most n: a batch holds
\* no transaction and no row twice.
RECURSIVE SeqsUpTo(_, _)
SeqsUpTo(S, n) ==
    IF n = 0 THEN {<<>>}
    ELSE LET shorter == SeqsUpTo(S, n - 1) IN
         shorter \cup UNION { {Append(q, x) : x \in {y \in S : \A i \in 1..Len(q) : q[i] # y}}
                              : q \in shorter }

\* The day offsets drawn for random.randint(0, 30): both ends of the range and
\* one value inside it.
DayOffsets == {0, 1, DaysBack}

services ==
    << [Item |-> "NCS Tech Fee",   Amount |-> 75,  Type |-> "EMG Tech Svc"],
       [Item |-> "Facility Split", Amount |-> 150, Type |-> "Facility Split"] >>

\* ------------------------------------------------------------- state
VARIABLES
    pc,            \* position of main(): start, plaid, sheet, sheet_map, sim, merge,
                   \* display, done, stopped (st.stop) or crashed (uncaught exception)
    plaid_client,  \* get_plaid_client(): "none" before the call, "ok" or "raised"
    response,      \* what transactions_sync did: [raised, added]
    plaid_data,
    sheet_fetch,   \* get_google_sheet_data(): none, no_credential, exception or ok
    sheet_df,      \* the DataFrame it returned: [columns, rows]
    sheet_data,
    rev_data,
    df_all,        \* the consolidated ledger, each row with its index label
    notices,       \* st.error / st.warning calls made
    total_rev, total_exp, net,
    cls_pc, cls_name, cls_category   \* a call of clean_expense_category

vars == <<pc, plaid_client, response, plaid_data, sheet_fetch, sheet_df, sheet_data,
          rev_data, df_all, notices, total_rev, total_exp, net,
          cls_pc, cls_name, cls_category>>

render_vars == <<pc, plaid_client, response, plaid_data, sheet_fetch, sheet_df,
                 sheet_data, rev_data, df_all, notices, total_rev, total_exp, net>>
cls_vars == <<cls_pc, cls_name, cls_category>>

PlaidErrorNotice == "error: Plaid Error. Check Secrets."
SheetWarningNotice == "warning: Google Sheet Error"

EmptyDf == [columns |-> {}, rows |-> <<>>]
NoResponse == [raised |-> FALSE, added |-> <<>>]

RenderInit ==
    /\ pc = "start"
    /\ plaid_client = "none"
    /\ response = NoResponse
    /\ plaid_data = <<>>
    /\ sheet_fetch = "none"
    /\ sheet_df = EmptyDf
    /\ sheet_data = <<>>
    /\ rev_data = <<>>
    /\ df_all = <<>>
    /\ notices = {}
    /\ total_rev = 0 /\ total_exp = 0 /\ net = 0

Init ==
    /\ RenderInit
    /\ cls_pc = "idle" /\ cls_name = <<>> /\ cls_category = NoneVal

\* ------------------------------------------------------------- bank feed
\* plaid_client = get_plaid_client(): called before the try block.
GetPlaidClient ==
    /\ pc = "start"
    /\ \E raised \in BOOLEAN :
         /\ plaid_client' = IF raised THEN "raised" ELSE "ok"
         /\ pc' = IF raised THEN "crashed" ELSE "plaid"
    /\ UNCHANGED <<response, plaid_data, sheet_fetch, sheet_df, sheet_data, rev_data,
                   df_all, notices, total_rev, total_exp, net, cls_vars>>

\* The record appended for one transaction.
PlaidRecord(t) ==
    [Date |-> t.date.day, Description |-> t.name, Amount |-> t.amount,
     Category |-> clean_expense_category(Chars(t.name)),
     Source |-> "Bank Feed (Plaid)", Flow |-> "OUT (Expense)", Receipt |-> NoneVal]

\* The for loop over response['added']: appends until a transaction raises.
RECURSIVE MapTransactions(_, _)
MapTransactions(added, acc) ==
    IF added = <<>> THEN [data |-> acc, raised |-> FALSE]
    ELSE LET t == Head(added) IN
         IF ~t.date.ok THEN [data |-> acc, raised |-> TRUE]
         ELSE MapTransactions(Tail(added), Append(acc, PlaidRecord(t)))

\* The try block: the sync call and the loop; the bare except reports and goes on.
PlaidStep ==
    /\ pc = "plaid"
    /\ \E raised \in BOOLEAN, added \in SeqsUpTo(TxnSet, MaxTxn) :
         /\ raised => added = <<>>
         /\ response' = [raised |-> raised, added |-> added]
         /\ LET m == MapTransactions(added, <<>>) IN
            /\ plaid_data' = m.data
            /\ notices' = IF raised \/ m.raised
                          THEN notices \cup {PlaidErrorNotice} ELSE notices
    /\ pc' = "sheet"
    /\ UNCHANGED <<plaid_client, sheet_fetch, sheet_df, sheet_data, rev_data, df_all,
                   total_rev, total_exp, net, cls_vars>>

\* ------------------------------------------------------------- spreadsheet
\* sheet_df = get_google_sheet_data()
GetGoogleSheetData ==
    /\ pc = "sheet"
    /\ \/ /\ sheet_fetch' = "no_credential"
          /\ sheet_df' = EmptyDf
          /\ notices' = notices
       \/ /\ sheet_fetch' = "exception"
          /\ sheet_df' = EmptyDf
          /\ notices' = notices \cup {SheetWarningNotice}
       \/ /\ sheet_fetch' = "ok"
          /\ \E rows \in SeqsUpTo(RowSet, MaxRows), columns \in SchemaSet :
               sheet_df' = IF rows = <<>> THEN EmptyDf
                           ELSE [columns |-> columns, rows |-> rows]
          /\ notices' = notices
    /\ pc' = "sheet_map"
    /\ UNCHANGED <<plaid_client, response, plaid_data, sheet_data, rev_data, df_all,
                   total_rev, total_exp, net, cls_vars>>

\* d: the parsed date, or today when row['Date'] or the parse raises.
RowDate(columns, row) ==
    IF "Date" \in columns /\ row.Date.ok THEN row.Date.day ELSE Today

\* receipt_link = row.get('receipts', None), "" turned into None.
RowReceipt(columns, row) ==
    IF "receipts" \notin columns THEN NoneVal
    ELSE IF row.receipts = "" THEN NoneVal ELSE row.receipts

\* Whether building the dict for the row raises (KeyError or ValueError).
RowRaises(columns, row) ==
    \/ "Description" \notin columns
    \/ "Amount" \notin columns
    \/ ~FloatOf(row.Amount).ok
    \/ "Category" \notin columns

SheetRecord(columns, row) ==
    [Date |-> RowDate(columns, row), Description |-> row.Description,
     Amount |-> FloatOf(row.Amount).val, Category |-> row.Category,
     Source |-> "Google Sheet", Flow |-> "OUT (Expense)",
     Receipt |-> RowReceipt(columns, row)]

\* The loop over sheet_df.iterrows(): nothing catches what a row raises.
RECURSIVE MapRows(_, _, _)
MapRows(columns, rows, acc) ==
    IF rows = <<>> THEN [data |-> acc, raised |-> FALSE]
    ELSE LET row == Head(rows) IN
         IF RowRaises(columns, row) THEN [data |-> acc, raised |-> TRUE]
         ELSE MapRows(columns, Tail(rows), Append(acc, SheetRecord(columns, row)))

\* if not sheet_df.empty: for index, row in sheet_df.iterrows(): ...
MapSheet ==
    /\ pc = "sheet_map"
    /\ LET m == MapRows(sheet_df.columns, sheet_df.rows, <<>>) IN
       /\ sheet_data' = m.data
       /\ pc' = IF m.raised THEN "crashed" ELSE "sim"
    /\ UNCHANGED <<plaid_client, response, plaid_data, sheet_fetch, sheet_df, rev_data,
                   df_all, notices, total_rev, total_exp, net, cls_vars>>

\* ------------------------------------------------------------- simulator
\* The iterations of  for _ in range(30).
RevRange == 1..RevCount

\* The record appended for one simulated sale, dated in the future.
RevRecordAhead(sale, offset) ==
    [Date |-> Today + offset + 1, Description |-> sale.Item, Amount |-> sale.Amount,
     Category |-> sale.Type, Source |-> "Simulator", Flow |-> "IN (Revenue)",
     Receipt |-> NoneVal]

\* The record appended for one simulated sale.
RevRecord(sale, offset) ==
    [Date |-> Today - offset, Description |-> sale.Item, Amount |-> sale.Amount,
     Category |-> sale.Type, Source |-> "Simulator", Flow |-> "IN (Revenue)",
     Receipt |-> NoneVal]

\* One iteration of the loop; after the last one main() goes on to the merge.
GenerateRevenue ==
    /\ pc = "sim"
    /\ Len(rev_data) + 1 \in RevRange
    /\ \E k \in 1..Len(services), offset \in DayOffsets :
         rev_data' = Append(rev_data, RevRecord(services[k], offset))
    /\ pc' = IF Len(rev_data) + 2 \in RevRange THEN "sim" ELSE "merge"
    /\ UNCHANGED <<plaid_client, response, plaid_data, sheet_fetch, sheet_df, sheet_data,
                   df_all, notices, total_rev, total_exp, net, cls_vars>>

\* ------------------------------------------------------------- merge
\* dfs_to_merge, with the emptiness test inverted.
DfsToMergeEmpty(dfs) == SelectSeq(dfs, LAMBDA df : df = <<>>)

\* dfs_to_merge = [df for df in [...] if not df.empty]
DfsToMerge(dfs) == SelectSeq(dfs, LAMBDA df : df # <<>>)

\* pd.concat(dfs)
RECURSIVE Concat(_)
Concat(dfs) == IF dfs = <<>> THEN <<>> ELSE Head(dfs) \o Concat(Tail(dfs))

\* .reset_index(drop=True): every row gets its position as index label.
ResetIndex(rows) ==
    [i \in 1..Len(rows) |-> [index |-> i - 1, row |-> rows[i]]]

\* The orders a descending sort on Date can leave the rows in.  sort_values is
\* called without kind=, so with pandas' default "quicksort", which is not a
\* stable sort: rows with equal dates may come out in any order.
RECURSIVE SortOrders(_, _)
SortOrders(rows, left) ==
    IF left = {} THEN {<<>>}
    ELSE LET latest == {i \in left : \A j \in left : rows[j].row.Date <= rows[i].row.Date}
         IN UNION { {<<rows[i]>> \o rest : rest \in SortOrders(rows, left \ {i})}
                    : i \in latest }

\* sort_values with ascending=True.
SortValuesAscending(rows) ==
    { [i \in 1..Len(rows) |-> q[Len(rows) + 1 - i]] :
        q \in SortOrders(rows, 1..Len(rows)) }

\* df_all.sort_values(by="Date", ascending=False): the possible results.
SortValues(rows) == SortOrders(rows, 1..Len(rows))

\* The merge: the ledger, or st.stop() when there is nothing to merge.
Merge ==
    /\ pc = "merge"
    /\ LET dfs_to_merge == DfsToMerge(<<plaid_data, sheet_data, rev_data>>) IN
       IF dfs_to_merge # <<>>
       THEN /\ df_all' \in SortValues(ResetIndex(Concat(dfs_to_merge)))
            /\ pc' = "display"
       ELSE /\ df_all' = df_all
            /\ pc' = "stopped"
    /\ UNCHANGED <<plaid_client, response, plaid_data, sheet_fetch, sheet_df, sheet_data,
                   rev_data, notices, total_rev, total_exp, net, cls_vars>>

\* ------------------------------------------------------------- metrics
\* df['Amount'].sum()
RECURSIVE SumAmount(_)
SumAmount(rows) ==
    IF rows = <<>> THEN 0 ELSE Head(rows).row.Amount + SumAmount(Tail(rows))

\* The flow filter left out: every row is kept.
FlowRowsAll(rows, flow) == rows

\* df_all[df_all['Flow'] == flow]
FlowRows(rows, flow) == SelectSeq(rows, LAMBDA r : r.row.Flow = flow)

\* The three metrics shown above the ledger.
Display ==
    /\ pc = "display"
    /\ total_rev' = SumAmount(FlowRows(df_all, "IN (Revenue)"))
    /\ total_exp' = SumAmount(FlowRows(df_all, "OUT (Expense)"))
    /\ net' = total_rev' - total_exp'
    /\ pc' = "done"
    /\ UNCHANGED <<plaid_client, response, plaid_data, sheet_fetch, sheet_df, sheet_data,
                   rev_data, df_all, notices, cls_vars>>

Next ==
    \/ GetPlaidClient
    \/ PlaidStep
    \/ GetGoogleSheetData
    \/ MapSheet
    \/ GenerateRevenue
    \/ Merge
    \/ Display

Spec == Init /\ [][Next]_vars

\* ------------------------------------------------------------- classifier calls
Tokens ==
    { <<"U","b","e","r">>, <<"U","N","I","T","E","D">>,
      <<"M","c","D","o","n","a","l","d">>, <<"s","t","a","r","b","u","c","k","s">>,
      <<"S","p","a","r","k","F","u","n">>, <<"A","p","p","l","e">>,
      <<" ">>, <<"u","b">>, <<"E","R">>, <<"T","a","x","i">> }

\* The descriptions handed to the classifier: up to MaxTokens tokens joined.
RECURSIVE Descriptions(_)
Descriptions(n) ==
    IF n = 0 THEN {<<>>}
    ELSE LET shorter == Descriptions(n - 1) IN
         shorter \cup {d \o t : d \in shorter, t \in Tokens}

InitClassify ==
    /\ RenderInit
    /\ cls_pc = "call"
    /\ cls_name \in Descriptions(MaxTokens)
    /\ cls_category = NoneVal

Classify ==
    /\ cls_pc = "call"
    /\ cls_category' = clean_expense_category(cls_name)
    /\ cls_pc' = "returned"
    /\ UNCHANGED <<cls_name, render_vars>>

NextClassify == Classify

SpecClassify == InitClassify /\ [][NextClassify]_vars

\* ------------------------------------------------------------- properties
Range(q) == {q[i] : i \in DOMAIN q}

\* The rows of the ledger, without their index labels.
LedgerRows == [k \in DOMAIN df_all |-> df_all[k].row]

Displayed == pc \in {"display", "done"}

\* The bank-feed step has run (or has ended the render) and something in it raised.
BankStepOver == pc \notin {"start", "plaid"}
BankStepFailed ==
    \/ plaid_client = "raised"
    \/ response.raised
    \/ \E i \in DOMAIN response.added : ~response.added[i].date.ok

\* C1: whenever the bank-feed step failed (building the client, the sync call or
\* the mapping of a transaction raised), the bank feed contributes no record, the
\* Plaid error notice is recorded, and the render is not ended by it: the
\* displayed ledger holds exactly the spreadsheet and simulator records.
C1_BankFailureIsolated ==
    (BankStepOver /\ BankStepFailed) =>
        /\ plaid_data = <<>>
        /\ PlaidErrorNotice \in notices
        /\ plaid_client # "raised"
        /\ Displayed => Len(df_all) = Len(sheet_data) + Len(rev_data)

ExpectedColumns == {"Date", "Description", "Amount", "Category"}
SheetStepOver == pc \notin {"start", "plaid", "sheet", "sheet_map"}
SheetFetched == sheet_fetch # "none"
SheetFailed ==
    \/ sheet_fetch \in {"no_credential", "exception"}
    \/ /\ sheet_fetch = "ok"
       /\ sheet_df.rows # <<>>
       /\ ~(ExpectedColumns \subseteq sheet_df.columns)

\* C2: whenever the spreadsheet source failed (no credential, an exception in the
\* fetch, or rows lacking an expected column), it yields no record, the warning is
\* recorded, and the render is not ended by it.
C2_SheetFailureIsolated ==
    (SheetFetched /\ SheetFailed) =>
        /\ SheetWarningNotice \in notices
        /\ sheet_data = <<>>
        /\ pc # "crashed"

WellFormedTxn(t) == t.date.ok
SheetSchemaOk == ExpectedColumns \subseteq sheet_df.columns

\* C3: one malformed record never fails its batch: once the bank-feed step is
\* over without the sync call raising, every well-formed transaction of the
\* response has its record in plaid_data; and a worksheet with every expected
\* column never ends the render, every row with a numeric amount has its record
\* in sheet_data (a row with an unparseable date being dated today), and all of
\* these records are in the displayed ledger.
C3_NoWholeBatchFailure ==
    /\ (BankStepOver /\ plaid_client = "ok" /\ ~response.raised) =>
          \A i \in DOMAIN response.added :
             WellFormedTxn(response.added[i]) =>
                PlaidRecord(response.added[i]) \in Range(plaid_data)
    /\ (sheet_fetch = "ok" /\ SheetSchemaOk) =>
          /\ pc # "crashed"
          /\ SheetStepOver =>
                \A i \in DOMAIN sheet_df.rows :
                   FloatOf(sheet_df.rows[i].Amount).ok =>
                      SheetRecord(sheet_df.columns, sheet_df.rows[i]) \in Range(sheet_data)
    /\ Displayed => (Range(plaid_data) \cup Range(sheet_data)) \subseteq Range(LedgerRows)

\* C4: the displayed ledger has as many rows as the three record sets together,
\* its index labels are a permutation of the positions of their concatenation
\* (bank feed, spreadsheet, simulator), each row being the record at its label,
\* and its dates never increase from one row to the next.
C4_LedgerIsSortedPermutation ==
    Displayed =>
        LET all == plaid_data \o sheet_data \o rev_data
            n == Len(plaid_data) + Len(sheet_data) + Len(rev_data)
        IN /\ n > 0
           /\ Len(df_all) = n
           /\ {df_all[k].index : k \in 1..n} = 0..(n - 1)
           /\ \A k \in 1..n : df_all[k].row = all[df_all[k].index + 1]
           /\ \A k \in 1..(n - 1) : df_all[k].row.Date >= df_all[k + 1].row.Date

\* C4 witness: a displayed ledger fed by all three sources whose order differs
\* from the order of the concatenation.
C4_Witness ==
    /\ pc = "done"
    /\ plaid_data # <<>> /\ sheet_data # <<>> /\ rev_data # <<>>
    /\ \E k \in DOMAIN df_all : df_all[k].index # k - 1

\* C5: in the displayed ledger two rows with the same date stand in the order of
\* their positions in the concatenation of the inputs (the sort is stable).
C5_SortIsStable ==
    Displayed =>
        \A i, j \in DOMAIN df_all :
           (i < j /\ df_all[i].row.Date = df_all[j].row.Date)
              => df_all[i].index < df_all[j].index

\* The rules of the classifier in their documented order.
Rules ==
    << [keywords |-> {kw_uber, kw_united},       category |-> "Travel"],
       [keywords |-> {kw_mcdonald, kw_starbucks}, category |-> "Meals"],
       [keywords |-> {kw_sparkfun, kw_apple},     category |-> "Equipment/Supplies"] >>
RuleMatches(r, text) == \E kw \in Rules[r].keywords : Contains(kw, text)
FirstMatch(text) ==
    IF \E r \in DOMAIN Rules : RuleMatches(r, text)
    THEN LET first == CHOOSE r \in DOMAIN Rules :
                         /\ RuleMatches(r, text)
                         /\ \A q \in DOMAIN Rules : RuleMatches(q, text) => r <= q
         IN Rules[first].category
    ELSE "Misc. Expense"

\* C6: every call of clean_expense_category returns the category of the first
\* rule (Travel, then Meals, then Equipment/Supplies) one of whose keywords is a
\* substring of the lower-cased description, and "Misc. Expense" when no keyword
\* is (the empty description included).
C6_FirstMatchClassifier ==
    cls_pc = "returned" =>
        /\ cls_category = FirstMatch(Lower(cls_name))
        /\ cls_name = <<>> => cls_category = "Misc. Expense"

\* C6 witness: a description in mixed case holding a keyword of the third rule
\* before a keyword of the first rule was classified as Travel.
C6_Witness ==
    /\ cls_pc = "returned"
    /\ cls_name = <<"A","p","p","l","e">> \o <<"U","b","e","r">>
    /\ cls_category = "Travel"

\* The sum of Amount over the ledger rows of one flow, row by row.
LedgerSum(flows) ==
    LET f[k \in 0..Len(df_all)] ==
          IF k = 0 THEN 0
          ELSE f[k - 1] + (IF df_all[k].row.Flow \in flows
                           THEN df_all[k].row.Amount ELSE 0)
    IN f[Len(df_all)]

\* C7: once the metrics are shown, total revenue is the sum of Amount over the
\* ledger rows whose flow is revenue, total expense the sum over those whose flow
\* is expense, every row has one of the two flows (so counts in exactly one
\* total), and net profit is total revenue minus total expense.
C7_MetricsAreFlowSums ==
    pc = "done" =>
        /\ total_rev = LedgerSum({"IN (Revenue)"})
        /\ total_exp = LedgerSum({"OUT (Expense)"})
        /\ \A k \in DOMAIN df_all : df_all[k].row.Flow \in {"IN (Revenue)", "OUT (Expense)"}
        /\ total_rev + total_exp = LedgerSum({"IN (Revenue)", "OUT (Expense)"})
        /\ net = total_rev - total_exp

\* C7 witness: metrics shown for a ledger holding bank, spreadsheet and simulator
\* rows, with both totals positive.
C7_Witness ==
    /\ pc = "done"
    /\ plaid_data # <<>> /\ sheet_data # <<>>
    /\ total_rev > 0 /\ total_exp > 0
    /\ net = total_rev - total_exp

\* C8: every row of the displayed ledger has a non-negative amount.
C8_AmountsNonNegative ==
    Displayed => \A k \in DOMAIN df_all : df_all[k].row.Amount >= 0

\* The fixed price list: (description, amount, category).
PriceList ==
    { <<"NCS Tech Fee", 75, "EMG Tech Svc">>, <<"Facility Split", 150, "Facility Split">> }
SimulatorOver == pc \in {"merge", "display", "done", "stopped"}

\* C9: once the simulator loop is over it has produced exactly RevCount records,
\* and every record it ever holds is a revenue record of source Simulator
\* without receipt, whose description, amount and category are one entry of the
\* price list, dated from DaysBack days ago to today.
C9_SimulatorRecords ==
    /\ SimulatorOver => Len(rev_data) = RevCount
    /\ Len(rev_data) <= RevCount
    /\ \A i \in DOMAIN rev_data :
          LET r == rev_data[i] IN
          /\ r.Flow = "IN (Revenue)"
          /\ r.Source = "Simulator"
          /\ r.Receipt = NoneVal
          /\ <<r.Description, r.Amount, r.Category>> \in PriceList
          /\ Today - DaysBack <= r.Date /\ r.Date <= Today

\* C9 witness: the loop is over and has drawn both price-list entries and both
\* ends of the date range.
C9_Witness ==
    /\ pc = "merge"
    /\ Len(rev_data) = RevCount
    /\ {rev_data[i].Description : i \in DOMAIN rev_data} = {"NCS Tech Fee", "Facility Split"}
    /\ {Today, Today - DaysBack} \subseteq {rev_data[i].Date : i \in DOMAIN rev_data}

\* C10: whenever the render reaches the merge, the simulator has contributed
\* exactly RevCount (a positive number of) revenue records whatever the other
\* two sources returned, so dfs_to_merge is not empty, st.stop() is never
\* reached, the displayed ledger holds at least RevCount rows and the total
\* revenue shown is positive.
C10_SimulatorAlwaysContributes ==
    /\ pc # "stopped"
    /\ SimulatorOver =>
          /\ Len(rev_data) = RevCount /\ RevCount > 0
          /\ DfsToMerge(<<plaid_data, sheet_data, rev_data>>) # <<>>
    /\ Displayed => Len(df_all) >= RevCount
    /\ pc = "done" => total_rev > 0

\* C10 witness: the bank feed and the spreadsheet returned nothing and the
\* ledger shown holds the simulator's records alone.
C10_Witness ==
    /\ pc = "done"
    /\ plaid_data = <<>> /\ sheet_data = <<>>
    /\ Len(df_all) = RevCount
    /\ total_rev > 0

====
